---------------------------- MODULE Spec2Model ----------------------------
(***************************************************************************)
(* MoonTV: the TMDB browse handlers.                                       *)
(*                                                                         *)
(*   src/src/app/api/tmdb/route.ts  lines  19-166  GET, the search handler *)
(*   src/src/app/api/tmdb/route.ts  lines 185-482  GET, the categories     *)
(*                                                 handler                 *)
(*   src/unnamed/part_000   tmdb.utils: buildTMDBUrl, getSearchStrategy,   *)
(*                          the converters                                 *)
(*   src/unnamed/part_001   GET, the plain search handler                  *)
(*   src/unnamed/part_002   GET, the plain categories handler              *)
(*                                                                         *)
(* A JavaScript string is a tuple of characters, one TLA+ string per       *)
(* character.  A CJK character is one character, written as its pinyin     *)
(* syllable: 综艺 is <<"zong", "yi">>.  The value null is the tuple Null.  *)
(* A JavaScript number is a record: Num(n), NaN, Infinity.                 *)
(***************************************************************************)
EXTENDS Integers, Sequences, FiniteSets, TLC

\* ------------------------------------------------------------------------
\* Bounds of the model
\* ------------------------------------------------------------------------
NumInv == 2
MaxResults == 2

\* ------------------------------------------------------------------------
\* JavaScript values
\* ------------------------------------------------------------------------
Null == <<"<null>">>
\* A field the upstream JSON does not carry
Undefined == <<"<undefined>">>
UndefinedNum == [k |-> "undefined", n |-> 0]

\* !v for a string, null or undefined v
Falsy(v) == v \in {Null, Undefined, <<>>}

\* a || b for strings
OrElse(a, b) == IF Falsy(a) THEN b ELSE a

Num(n) == [k |-> "num", n |-> n]
NaN == [k |-> "NaN", n |-> 0]
Infinity == [k |-> "Infinity", n |-> 0]
NegInfinity == [k |-> "-Infinity", n |-> 0]

\* a < b on JavaScript numbers: every comparison with NaN is false
Lt(a, b) ==
  CASE a.k = "NaN" \/ b.k = "NaN" -> FALSE
    [] a.k = "num" /\ b.k = "num" -> a.n < b.n
    [] a.k = "-Infinity" -> b.k # "-Infinity"
    [] a.k = "Infinity" -> FALSE
    [] OTHER -> b.k = "Infinity"

Gt(a, b) == Lt(b, a)

\* floor of the quotient of two integers, d > 0
FloorDivInt(n, d) == IF n >= 0 THEN n \div d ELSE -((-n + d - 1) \div d)

\* Math.ceil(a / b) in the place of Math.floor(a / b)
MathCeilDiv(a, b) ==
  IF a.k = "num" /\ b.k = "num" /\ b.n > 0 THEN Num(-FloorDivInt(-a.n, b.n)) ELSE NaN

\* Math.floor(a / b)
MathFloorDiv(a, b) ==
  CASE a.k = "NaN" \/ b.k = "NaN" -> NaN
    [] a.k = "num" /\ b.k = "num" ->
         IF b.n = 0
           THEN (IF a.n = 0 THEN NaN ELSE IF a.n > 0 THEN Infinity ELSE NegInfinity)
           ELSE IF b.n > 0 THEN Num(FloorDivInt(a.n, b.n))
                ELSE Num(FloorDivInt(-a.n, -b.n))
    [] a.k = "num" -> Num(IF (a.n < 0) = (b.k = "Infinity") /\ a.n # 0 THEN -1 ELSE 0)
    [] b.k = "num" ->
         IF b.n = 0 THEN a
         ELSE IF (b.n > 0) = (a.k = "Infinity") THEN Infinity ELSE NegInfinity
    [] OTHER -> NaN

\* a + 1
PlusOne(a) == IF a.k = "num" THEN Num(a.n + 1) ELSE a

Digits == <<"0", "1", "2", "3", "4", "5", "6", "7", "8", "9">>
HexDigits == Digits \o <<"a", "b", "c", "d", "e", "f">>

\* the value of character c as a digit of the radix, -1 when it is none
DigitValue(c, radix) ==
  LET lower == CASE c = "A" -> "a" [] c = "B" -> "b" [] c = "C" -> "c"
                 [] c = "D" -> "d" [] c = "E" -> "e" [] c = "F" -> "f"
                 [] OTHER -> c
      hits == {v \in 0..(radix - 1) : HexDigits[v + 1] = lower}
  IN IF hits = {} THEN -1 ELSE CHOOSE v \in hits : TRUE

IsWhiteSpace(c) == c \in {" ", "\t", "\n"}

RECURSIVE TrimStart(_)
TrimStart(s) ==
  IF s # <<>> /\ IsWhiteSpace(Head(s)) THEN TrimStart(Tail(s)) ELSE s

\* the value of the longest prefix of s made of digits of the radix, acc so far
RECURSIVE ParseDigits(_, _, _)
ParseDigits(s, radix, acc) ==
  IF s = <<>> \/ DigitValue(Head(s), radix) < 0 THEN acc
  ELSE ParseDigits(Tail(s), radix, acc * radix + DigitValue(Head(s), radix))

\* parseInt(s) with no radix argument
parseInt(s) ==
  LET t == TrimStart(s)
      neg == t # <<>> /\ Head(t) = "-"
      u == IF t # <<>> /\ Head(t) \in {"-", "+"} THEN Tail(t) ELSE t
      hex == Len(u) >= 2 /\ u[1] = "0" /\ u[2] \in {"x", "X"}
      radix == IF hex THEN 16 ELSE 10
      v == IF hex THEN Tail(Tail(u)) ELSE u
  IN IF v = <<>> \/ DigitValue(Head(v), radix) < 0 THEN NaN
     ELSE Num((IF neg THEN -1 ELSE 1) * ParseDigits(v, radix, 0))

\* the decimal digits of a natural number
RECURSIVE NatToString(_)
NatToString(n) ==
  IF n < 10 THEN <<Digits[n + 1]>>
  ELSE NatToString(n \div 10) \o <<Digits[(n % 10) + 1]>>

\* String(v) for a number
NumberToString(v) ==
  CASE v.k = "NaN" -> <<"N", "a", "N">>
    [] v.k = "Infinity" -> <<"I", "n", "f", "i", "n", "i", "t", "y">>
    [] v.k = "-Infinity" -> <<"-", "I", "n", "f", "i", "n", "i", "t", "y">>
    [] OTHER -> IF v.n < 0 THEN <<"-">> \o NatToString(-v.n) ELSE NatToString(v.n)

\* s.includes(p)
Includes(s, p) ==
  \E i \in 1..(Len(s) - Len(p) + 1) : SubSeq(s, i, i + Len(p) - 1) = p

\* ------------------------------------------------------------------------
\* Objects and URLs
\* ------------------------------------------------------------------------
\* The values of a Record<string, string | number | boolean>
Bool(b) == [t |-> "bool", b |-> b]
NumV(n) == [t |-> "num", v |-> Num(n)]
Str(s) == [t |-> "str", s |-> s]

\* String(value)
ValueToString(v) ==
  CASE v.t = "bool" -> (IF v.b THEN <<"t", "r", "u", "e">>
                        ELSE <<"f", "a", "l", "s", "e">>)
    [] v.t = "num" -> NumberToString(v.v)
    [] OTHER -> v.s

\* An object is the tuple of its <<key, value>> entries in insertion order.
HasKey(obj, key) == \E i \in 1..Len(obj) : obj[i][1] = key

\* obj[key]; only used where the key is present
Get(obj, key) == obj[CHOOSE i \in 1..Len(obj) : obj[i][1] = key][2]

\* obj[key] = value: an existing key keeps its place, a new key goes last
ObjSet(obj, key, value) ==
  IF HasKey(obj, key)
    THEN [i \in 1..Len(obj) |-> IF obj[i][1] = key THEN <<key, value>> ELSE obj[i]]
    ELSE Append(obj, <<key, value>>)

\* {...a, ...b}
RECURSIVE Spread(_, _)
Spread(a, b) ==
  IF b = <<>> THEN a ELSE Spread(ObjSet(a, b[1][1], b[1][2]), Tail(b))

\* The CJK characters of the labels the handlers know, and of one they do not
CJK == {"re", "men", "zui", "xin", "ji2", "jiang", "shang", "ying", "gao",
        "fen", "dou", "ban", "hua", "yu", "ou", "mei", "han", "guo", "ri",
        "ben", "dong", "man", "ji4", "lu", "pian", "leng", "jia", "zong",
        "yi", "ke", "huan"}

AlphaNum == {"0", "1", "2", "3", "4", "5", "6", "7", "8", "9",
             "a", "b", "c", "d", "e", "f", "g", "h", "i", "j", "k", "l", "m",
             "n", "o", "p", "q", "r", "s", "t", "u", "v", "w", "x", "y", "z",
             "A", "B", "C", "D", "E", "F", "G", "H", "I", "J", "K", "L", "M",
             "N", "O", "P", "Q", "R", "S", "T", "U", "V", "W", "X", "Y", "Z"}

\* the percent escape of one character: the escape of a CJK character c is
\* written <<"%", c>> for the escapes of its three UTF-8 bytes
PercentEscape(c) ==
  CASE c \in CJK -> <<"%", c>>
    [] c = " " -> <<"%", "2", "0">>
    [] c = "#" -> <<"%", "2", "3">>
    [] c = "%" -> <<"%", "2", "5">>
    [] c = "&" -> <<"%", "2", "6">>
    [] c = "+" -> <<"%", "2", "B">>
    [] c = "/" -> <<"%", "2", "F">>
    [] c = "=" -> <<"%", "3", "D">>
    [] c = "?" -> <<"%", "3", "F">>
    [] OTHER -> <<"%", "?", "?">>

\* the application/x-www-form-urlencoded serializer of URLSearchParams
RECURSIVE FormEncode(_)
FormEncode(s) ==
  IF s = <<>> THEN <<>>
  ELSE LET c == Head(s)
       IN (CASE c \in AlphaNum \cup {"*", "-", ".", "_"} -> <<c>>
             [] c = " " -> <<"+">>
             [] OTHER -> PercentEscape(c)) \o FormEncode(Tail(s))

RECURSIVE encodeURIComponent(_)
encodeURIComponent(s) ==
  IF s = <<>> THEN <<>>
  ELSE LET c == Head(s)
       IN (IF c \in AlphaNum \cup {"-", "_", ".", "!", "~", "*", "'", "(", ")"}
             THEN <<c>> ELSE PercentEscape(c)) \o encodeURIComponent(Tail(s))

\* url.searchParams.set(key, value) on the tuple of <<key, value>> pairs
SearchParamsSet(sp, key, value) == ObjSet(sp, key, value)

\* url.toString(): the path, and the pairs of the query with encoded values
UrlToString(endpoint, sp) ==
  [path |-> endpoint,
   query |-> [i \in 1..Len(sp) |-> <<sp[i][1], FormEncode(sp[i][2])>>]]

\* an entry whose value is undefined or null
IsAbsent(entry) == entry[2].t = "absent"

RECURSIVE SetAll(_, _)
SetAll(sp, params) ==
  IF params = <<>> THEN sp
  ELSE SetAll(IF IsAbsent(params[1]) THEN sp
              ELSE SearchParamsSet(sp, params[1][1], ValueToString(params[1][2])),
              Tail(params))

buildTMDBUrl(endpoint, apiKey, params) ==
  LET sp0 == SearchParamsSet(<<>>, "api_key", apiKey)
      sp1 == SearchParamsSet(sp0, "language", <<"z", "h", "-", "C", "N">>)
      sp2 == SearchParamsSet(sp1, "region", <<"C", "N">>)
  IN UrlToString(endpoint, SetAll(sp2, params))

\* ------------------------------------------------------------------------
\* The labels
\* ------------------------------------------------------------------------
ReMen == <<"re", "men">>                            \* 热门
ZuiXin == <<"zui", "xin">>                          \* 最新
JiJiangShangYing == <<"ji2", "jiang", "shang", "ying">> \* 即将上映
GaoFen == <<"gao", "fen">>                          \* 高分
DouBanGaoFen == <<"dou", "ban", "gao", "fen">>      \* 豆瓣高分
HuaYu == <<"hua", "yu">>                            \* 华语
OuMei == <<"ou", "mei">>                            \* 欧美
HanGuo == <<"han", "guo">>                          \* 韩国
RiBen == <<"ri", "ben">>                            \* 日本
DongMan == <<"dong", "man">>                        \* 动漫
JiLuPian == <<"ji4", "lu", "pian">>                 \* 纪录片
LengMenJiaPian == <<"leng", "men", "jia", "pian">>  \* 冷门佳片
ZongYi == <<"zong", "yi">>                          \* 综艺
PopularityDesc ==
  <<"p", "o", "p", "u", "l", "a", "r", "i", "t", "y", ".", "d", "e", "s", "c">>
VoteAverageDesc ==
  <<"v", "o", "t", "e", "_", "a", "v", "e", "r", "a", "g", "e", ".", "d", "e", "s", "c">>
Movie == <<"m", "o", "v", "i", "e">>
Tv == <<"t", "v">>
TvDomestic ==
  <<"t", "v", "_", "d", "o", "m", "e", "s", "t", "i", "c">>
TvAmerican ==
  <<"t", "v", "_", "a", "m", "e", "r", "i", "c", "a", "n">>
TvJapanese ==
  <<"t", "v", "_", "j", "a", "p", "a", "n", "e", "s", "e">>
TvKorean ==
  <<"t", "v", "_", "k", "o", "r", "e", "a", "n">>
TvAnimation ==
  <<"t", "v", "_", "a", "n", "i", "m", "a", "t", "i", "o", "n">>
TvDocumentary ==
  <<"t", "v", "_", "d", "o", "c", "u", "m", "e", "n", "t", "a", "r", "y">>
ShowLabel ==
  <<"s", "h", "o", "w">>
ShowDomestic ==
  <<"s", "h", "o", "w", "_", "d", "o", "m", "e", "s", "t", "i", "c">>
ShowForeign ==
  <<"s", "h", "o", "w", "_", "f", "o", "r", "e", "i", "g", "n">>

\* ------------------------------------------------------------------------
\* getSearchStrategy
\* ------------------------------------------------------------------------
Strategy(endpoint, params) == [endpoint |-> endpoint, params |-> params]

baseParams == << <<"include_adult", Bool(FALSE)>>, <<"include_video", Bool(FALSE)>> >>

ByCountry(code) ==
  Spread(baseParams, << <<"with_origin_country", Str(code)>>,
                        <<"sort_by", Str(PopularityDesc)>> >>)

ByGenre(id) ==
  Spread(baseParams, << <<"with_genres", Str(id)>>,
                        <<"sort_by", Str(PopularityDesc)>> >>)

\* the switch of the movie kind
MovieStrategy(tag) ==
  CASE tag = ReMen -> Strategy("/movie/popular", baseParams)
    [] tag = ZuiXin -> Strategy("/movie/now_playing", baseParams)
    [] tag = JiJiangShangYing -> Strategy("/movie/upcoming", baseParams)
    [] tag \in {GaoFen, DouBanGaoFen} -> Strategy("/movie/top_rated", baseParams)
    [] tag = HuaYu -> Strategy("/discover/movie", ByCountry(<<"C", "N">>))
    [] tag = OuMei -> Strategy("/discover/movie", ByCountry(<<"U", "S">>))
    [] tag = HanGuo -> Strategy("/discover/movie", ByCountry(<<"K", "R">>))
    [] tag = RiBen -> Strategy("/discover/movie", ByCountry(<<"J", "P">>))
    [] tag = DongMan -> Strategy("/discover/movie", ByGenre(<<"1", "6">>))
    [] tag = JiLuPian -> Strategy("/discover/movie", ByGenre(<<"9", "9">>))
    [] tag = LengMenJiaPian ->
         Strategy("/discover/movie",
                  Spread(baseParams,
                         << <<"sort_by", Str(VoteAverageDesc)>>,
                            <<"vote_count.gte", NumV(100)>> >>))
    [] OTHER -> Strategy("/search/movie",
                         Spread(baseParams, << <<"query", Str(tag)>> >>))

\* the switch of the tv kind with the default of the movie kind pasted in
TvStrategyPasted(tag) ==
  CASE tag = ReMen -> Strategy("/tv/popular", baseParams)
    [] tag = HuaYu -> Strategy("/discover/tv", ByCountry(<<"C", "N">>))
    [] tag = OuMei -> Strategy("/discover/tv", ByCountry(<<"U", "S">>))
    [] tag = HanGuo -> Strategy("/discover/tv", ByCountry(<<"K", "R">>))
    [] tag = RiBen -> Strategy("/discover/tv", ByCountry(<<"J", "P">>))
    [] tag = DongMan -> Strategy("/discover/tv", ByGenre(<<"1", "6">>))
    [] tag = JiLuPian -> Strategy("/discover/tv", ByGenre(<<"9", "9">>))
    [] tag = ZongYi -> Strategy("/discover/tv", ByGenre(<<"1", "0", "7", "6", "4">>))
    [] OTHER -> Strategy("/search/movie",
                         Spread(baseParams, << <<"query", Str(tag)>> >>))

\* the switch of the tv kind
TvStrategy(tag) ==
  CASE tag = ReMen -> Strategy("/tv/popular", baseParams)
    [] tag = HuaYu -> Strategy("/discover/tv", ByCountry(<<"C", "N">>))
    [] tag = OuMei -> Strategy("/discover/tv", ByCountry(<<"U", "S">>))
    [] tag = HanGuo -> Strategy("/discover/tv", ByCountry(<<"K", "R">>))
    [] tag = RiBen -> Strategy("/discover/tv", ByCountry(<<"J", "P">>))
    [] tag = DongMan -> Strategy("/discover/tv", ByGenre(<<"1", "6">>))
    [] tag = JiLuPian -> Strategy("/discover/tv", ByGenre(<<"9", "9">>))
    [] tag = ZongYi -> Strategy("/discover/tv", ByGenre(<<"1", "0", "7", "6", "4">>))
    [] OTHER -> Strategy("/search/tv",
                         Spread(baseParams, << <<"query", Str(tag)>> >>))

getSearchStrategy(tag, type) ==
  IF type = Movie THEN MovieStrategy(tag)
  ELSE IF type = Tv THEN TvStrategy(tag)
  ELSE Strategy("/movie/popular", baseParams)

\* ------------------------------------------------------------------------
\* The converters
\* ------------------------------------------------------------------------
\* A thrown value.  Every value thrown here is an Error: the TypeError of a
\* property read or of a failed fetch, the SyntaxError of response.json(),
\* the Error the handler throws itself, the AbortError of an aborted fetch.
\* In a message, a run of characters that holds no digit may be written as
\* one token.
Err(name, message) == [name |-> name, message |-> message, isError |-> TRUE]
NoError == [name |-> "", message |-> <<>>, isError |-> FALSE]

ImageBase == <<"https://image.tmdb.org/t/p/", "w", "5", "0", "0">>

\* n.toFixed(1) for a rating held in tenths
ToFixed1(v) == NatToString(v.n \div 10) \o <<".">> \o <<Digits[(v.n % 10) + 1]>>

\* s.split('-')[0]
RECURSIVE SplitHyphenFirst(_)
SplitHyphenFirst(s) ==
  IF s = <<>> \/ Head(s) = "-" THEN <<>>
  ELSE <<Head(s)>> \o SplitHyphenFirst(Tail(s))

IsDigit(c) == \E d \in 1..10 : Digits[d] = c

\* the converters of part_000; date and title are the fields of the kind
ConvertItem(id, title, original, poster_path, vote_average, date) ==
  IF id.k = "undefined"
    THEN [threw |-> TRUE,
          error |-> Err("TypeError",
                        <<"Cannot read properties of undefined (reading 'toString')">>)]
    ELSE [threw |-> FALSE,
          item |-> [id |-> NumberToString(id),
                    title |-> OrElse(title, original),
                    poster |-> IF Falsy(poster_path)
                                 THEN <<>> ELSE ImageBase \o poster_path,
                    rate |-> IF vote_average.k = "num" /\ vote_average.n # 0
                               THEN ToFixed1(vote_average) ELSE <<>>,
                    year |-> IF Falsy(date)
                               THEN <<>> ELSE SplitHyphenFirst(date)]]

convertTMDBMovieToDoubanItem(movie) ==
  ConvertItem(movie.id, movie.title, movie.original_title, movie.poster_path, movie.vote_average,
              movie.release_date)

convertTMDBSeriesToDoubanItem(series) ==
  ConvertItem(series.id, series.name, series.original_name, series.poster_path, series.vote_average,
              series.first_air_date)

\* the first run of four digits of s, <<>> when there is none: the match of
\* /(\d{4})/
RECURSIVE FirstFourDigits(_)
FirstFourDigits(s) ==
  IF Len(s) < 4 THEN <<>>
  ELSE IF \A j \in 1..4 : IsDigit(s[j]) THEN SubSeq(s, 1, 4)
  ELSE FirstFourDigits(Tail(s))

\* extractYear of part_001 and part_002
extractYear(dateString) ==
  IF Falsy(dateString) THEN <<>>
  ELSE FirstFourDigits(dateString)

\* getTMDBImageUrl of part_001 and part_002
getTMDBImageUrl(posterPath) ==
  IF Falsy(posterPath) THEN <<>>
  ELSE ImageBase \o posterPath

\* the converters of part_001 and part_002
PlainConvertItem(id, title, poster_path, vote_average, date) ==
  IF id.k = "undefined"
    THEN [threw |-> TRUE,
          error |-> Err("TypeError",
                        <<"Cannot read properties of undefined (reading 'toString')">>)]
    ELSE [threw |-> FALSE,
          item |-> [id |-> NumberToString(id),
                    title |-> title,
                    poster |-> getTMDBImageUrl(poster_path),
                    rate |-> IF vote_average.k = "num" /\ vote_average.n # 0
                               THEN ToFixed1(vote_average) ELSE <<>>,
                    year |-> extractYear(date)]]

\* a map whose callback swallows the error of an item and leaves the item out
RECURSIVE MapItemsSkipping(_, _, _)
MapItemsSkipping(results, plain, isMovie) ==
  IF results = <<>> THEN [threw |-> FALSE, list |-> <<>>]
  ELSE LET it == Head(results)
           one == IF plain
                    THEN PlainConvertItem(it.id,
                           IF isMovie THEN it.title ELSE it.name,
                           it.poster_path, it.vote_average,
                           IF isMovie THEN it.release_date ELSE it.first_air_date)
                    ELSE IF isMovie THEN convertTMDBMovieToDoubanItem(it)
                         ELSE convertTMDBSeriesToDoubanItem(it)
           rest == MapItemsSkipping(Tail(results), plain, isMovie)
       IN [threw |-> FALSE,
           list |-> (IF one.threw THEN <<>> ELSE <<one.item>>) \o rest.list]

\* item by item, as Array.prototype.map runs the callback: the first callback
\* that throws ends the map, and nothing of the array built so far is kept
RECURSIVE MapItems(_, _, _)
MapItems(results, plain, isMovie) ==
  IF results = <<>> THEN [threw |-> FALSE, list |-> <<>>]
  ELSE LET it == Head(results)
           one == IF plain
                    THEN PlainConvertItem(it.id,
                           IF isMovie THEN it.title ELSE it.name,
                           it.poster_path, it.vote_average,
                           IF isMovie THEN it.release_date ELSE it.first_air_date)
                    ELSE IF isMovie THEN convertTMDBMovieToDoubanItem(it)
                         ELSE convertTMDBSeriesToDoubanItem(it)
       IN IF one.threw THEN [threw |-> TRUE, error |-> one.error]
          ELSE LET rest == MapItems(Tail(results), plain, isMovie)
               IN IF rest.threw THEN rest
                  ELSE [threw |-> FALSE, list |-> <<one.item>> \o rest.list]

\* ------------------------------------------------------------------------
\* Responses
\* ------------------------------------------------------------------------
CACHE_DURATION == 3600

MsgMissingTagType == "missing required parameter: tag or type" \* 缺少必要参数：tag 或 type
MsgBadType == "type must be tv or movie"                  \* type 参数必须是 tv 或 movie
MsgBadPageSize == "pageSize must be within 1-100"         \* pageSize 必须在 1-100 之间
MsgBadPageStart == "pageStart must not be below 0"        \* pageStart 不能小于 0
MsgMissingKindCategoryType ==
  "missing required parameter: kind or category or type"  \* 缺少必要参数：kind 或 category 或 type
MsgBadKind == "kind must be tv or movie"                  \* kind 参数必须是 tv 或 movie
MsgBadPageLimit == "pageLimit must be within 1-100"       \* pageLimit 必须在 1-100 之间
MsgNoApiKey == "TMDB API Key not configured"              \* TMDB API Key 未配置
MsgOk == "success"                                        \* 获取成功
MsgSearchFailed == "fetching TMDB search data failed"     \* 获取 TMDB 搜索数据失败
MsgCategoriesFailed == "fetching TMDB category data failed" \* 获取 TMDB 分类数据失败
MsgTimeout == "request timed out, retry later"            \* 请求超时，请稍后重试
MsgKeyInvalid == "TMDB API Key invalid"                   \* TMDB API Key 无效
MsgRateLimited == "TMDB API requests too frequent, retry later" \* TMDB API 请求过于频繁，请稍后再试
MsgServerError == "TMDB server error"                     \* TMDB 服务器错误

NoHeaders == [cacheControl |-> 0, etag |-> FALSE]
NoResponse == [status |-> 0, body |-> [error |-> ""], headers |-> NoHeaders]

\* NextResponse.json({ error }, { status })
ErrorJson(message, status) ==
  [status |-> status, body |-> [error |-> message], headers |-> NoHeaders]

\* NextResponse.json(result) of a DoubanResult; the status defaults to 200
ResultJson(list, headers) ==
  [status |-> 200,
   body |-> [code |-> 200, message |-> MsgOk, list |-> list],
   headers |-> headers]

CacheHeaders == [cacheControl |-> CACHE_DURATION, etag |-> TRUE]

\* ------------------------------------------------------------------------
\* The synchronous part of the handlers: from the request to the fetch
\* ------------------------------------------------------------------------
Twenty == <<"2", "0">>
Zero == <<"0">>

\* what the part of a handler before its first await has done
Answered(resp, calls) == [resp |-> resp, urls |-> <<>>, calls |-> calls]
Fetching(url, calls) == [resp |-> NoResponse, urls |-> <<url>>, calls |-> calls]

\* route.ts, the search handler: the checks of the parameters
SearchValidate(sp) ==
  LET tag == sp.tag
      type == sp.type
      pageSize == parseInt(OrElse(sp.pageSize, Twenty))
      pageStart == parseInt(OrElse(sp.pageStart, Zero))
  IN IF Falsy(tag) \/ Falsy(type) THEN ErrorJson(MsgMissingTagType, 400)
     ELSE IF type \notin {Tv, Movie} THEN ErrorJson(MsgBadType, 400)
     ELSE IF Lt(pageSize, Num(1)) \/ Gt(pageSize, Num(100))
       THEN ErrorJson(MsgBadPageSize, 400)
     ELSE IF Lt(pageStart, Num(0)) THEN ErrorJson(MsgBadPageStart, 400)
     ELSE NoResponse

\* route.ts, the search handler: from the strategy to the call of fetch
SearchFetch(sp, apiKey) ==
  LET pageSize == parseInt(OrElse(sp.pageSize, Twenty))
      pageStart == parseInt(OrElse(sp.pageStart, Zero))
      strategy == getSearchStrategy(sp.tag, sp.type)
      page == PlusOne(MathFloorDiv(pageStart, pageSize))
      params == Spread(strategy.params, << <<"page", [t |-> "num", v |-> page]>> >>)
      cleanParams == Spread(<<>>, SelectSeq(params, LAMBDA e : ~IsAbsent(e)))
  IN Fetching(buildTMDBUrl(strategy.endpoint, apiKey, cleanParams), 1)

\* the search handler with the credential looked at only after the fetch is out
SearchSyncKeyLate(sp, apiKey) ==
  IF SearchValidate(sp) # NoResponse THEN Answered(SearchValidate(sp), 0)
  ELSE IF sp.tag = ZongYi /\ sp.type = Movie THEN Answered(ResultJson(<<>>, NoHeaders), 0)
  ELSE IF Falsy(apiKey)
    THEN [SearchFetch(sp, apiKey) EXCEPT !.resp = ErrorJson(MsgNoApiKey, 500)]
  ELSE SearchFetch(sp, apiKey)

\* the search handler without its special case for 综艺
SearchSyncNoSpecialCase(sp, apiKey) ==
  IF SearchValidate(sp) # NoResponse THEN Answered(SearchValidate(sp), 0)
  ELSE IF Falsy(apiKey) THEN Answered(ErrorJson(MsgNoApiKey, 500), 0)
  ELSE SearchFetch(sp, apiKey)

\* route.ts, the search handler up to its first await
SearchSync(sp, apiKey) ==
  IF SearchValidate(sp) # NoResponse THEN Answered(SearchValidate(sp), 0)
  ELSE IF Falsy(apiKey) THEN Answered(ErrorJson(MsgNoApiKey, 500), 0)
  ELSE IF sp.tag = ZongYi /\ sp.type = Movie THEN Answered(ResultJson(<<>>, NoHeaders), 0)
  ELSE SearchFetch(sp, apiKey)

\* route.ts, the categories handler: the endpoint and the parameters
CategoriesStrategy(kind, category, type, page) ==
  LET params == << <<"page", [t |-> "num", v |-> page]>>,
                   <<"include_adult", Bool(FALSE)>>,
                   <<"include_video", Bool(FALSE)>> >>
      Country(base, code) ==
        IF base.endpoint = "/discover/movie"
          THEN Strategy(base.endpoint,
                        ObjSet(base.params, "with_origin_country", Str(code)))
          ELSE Strategy("/discover/movie",
                        Spread(base.params,
                               << <<"with_origin_country", Str(code)>>,
                                  <<"sort_by", Str(PopularityDesc)>> >>))
      Genre(base, id) ==
        Strategy("/discover/movie",
                 Spread(base.params, << <<"with_genres", Str(id)>>,
                                        <<"sort_by", Str(PopularityDesc)>> >>))
      TvCountry(code) ==
        Strategy("/discover/tv", << <<"with_origin_country", Str(code)>>,
                                    <<"sort_by", Str(PopularityDesc)>> >>)
      TvGenre(id) ==
        Strategy("/discover/tv", << <<"with_genres", Str(id)>>,
                                    <<"sort_by", Str(PopularityDesc)>> >>)
      Show == <<"1", "0", "7", "6", "4">>
      ShowCountry(code) ==
        Strategy("/discover/tv", << <<"with_genres", Str(Show)>>,
                                    <<"with_origin_country", Str(code)>>,
                                    <<"sort_by", Str(PopularityDesc)>> >>)
      movieBase ==
        CASE category = ReMen -> Strategy("/movie/popular", <<>>)
          [] category = ZuiXin -> Strategy("/movie/now_playing", <<>>)
          [] category = JiJiangShangYing -> Strategy("/movie/upcoming", <<>>)
          [] category \in {GaoFen, DouBanGaoFen} -> Strategy("/movie/top_rated", <<>>)
          [] category = LengMenJiaPian ->
               Strategy("/discover/movie",
                        << <<"sort_by", Str(VoteAverageDesc)>>,
                           <<"vote_count.gte", Str(<<"1", "0", "0">>)>> >>)
          [] OTHER -> Strategy("/movie/popular", <<>>)
      movie ==
        CASE type = HuaYu -> Country(movieBase, <<"C", "N">>)
          [] type = OuMei -> Country(movieBase, <<"U", "S">>)
          [] type = HanGuo -> Country(movieBase, <<"K", "R">>)
          [] type = RiBen -> Country(movieBase, <<"J", "P">>)
          [] type = DongMan -> Genre(movieBase, <<"1", "6">>)
          [] type = JiLuPian -> Genre(movieBase, <<"9", "9">>)
          [] OTHER -> movieBase
      tv ==
        IF category = Tv THEN
          CASE type = Tv -> Strategy("/tv/popular", <<>>)
            [] type = TvDomestic -> TvCountry(<<"C", "N">>)
            [] type = TvAmerican -> TvCountry(<<"U", "S">>)
            [] type = TvJapanese -> TvCountry(<<"J", "P">>)
            [] type = TvKorean -> TvCountry(<<"K", "R">>)
            [] type = TvAnimation -> TvGenre(<<"1", "6">>)
            [] type = TvDocumentary -> TvGenre(<<"9", "9">>)
            [] OTHER -> Strategy("/tv/popular", <<>>)
        ELSE IF category = ShowLabel THEN
          CASE type = ShowLabel -> TvGenre(Show)
            [] type = ShowDomestic -> ShowCountry(<<"C", "N">>)
            [] type = ShowForeign -> ShowCountry(<<"U", "S">>)
            [] OTHER -> TvGenre(Show)
        ELSE Strategy("/tv/popular", <<>>)
      chosen == IF kind = Movie THEN movie ELSE tv
  IN Strategy(chosen.endpoint, Spread(params, chosen.params))

\* route.ts, the categories handler
CategoriesSync(sp, apiKey) ==
  LET kind == OrElse(sp.kind, Movie)
      category == sp.category
      type == sp.type
      pageLimit == parseInt(OrElse(sp.limit, Twenty))
      pageStart == parseInt(OrElse(sp.start, Zero))
  IN IF Falsy(kind) \/ Falsy(category) \/ Falsy(type)
       THEN Answered(ErrorJson(MsgMissingKindCategoryType, 400), 0)
     ELSE IF kind \notin {Tv, Movie} THEN Answered(ErrorJson(MsgBadKind, 400), 0)
     ELSE IF Lt(pageLimit, Num(1)) \/ Gt(pageLimit, Num(100))
       THEN Answered(ErrorJson(MsgBadPageLimit, 400), 0)
     ELSE IF Lt(pageStart, Num(0)) THEN Answered(ErrorJson(MsgBadPageStart, 400), 0)
     ELSE IF Falsy(apiKey) THEN Answered(ErrorJson(MsgNoApiKey, 500), 0)
     ELSE LET page == PlusOne(MathFloorDiv(pageStart, pageLimit))
              strategy == CategoriesStrategy(kind, category, type, page)
          IN Fetching(buildTMDBUrl(strategy.endpoint, apiKey, strategy.params), 0)

\* the URL a template literal of part_001 and part_002 builds: the API key
\* goes in as it is
PlainUrl(endpoint, apiKey, query, page) ==
  [path |-> endpoint,
   query |-> << <<"api_key", apiKey>>, <<"language", <<"z", "h", "-", "C", "N">>>> >>
             \o query \o << <<"page", NumberToString(page)>> >>]

\* part_001, the plain search handler
PlainSearchSync(sp, apiKey) ==
  LET tag == sp.tag
      type == sp.type
      pageSize == parseInt(OrElse(sp.pageSize, Twenty))
      pageStart == parseInt(OrElse(sp.pageStart, Zero))
  IN IF Falsy(tag) \/ Falsy(type) THEN Answered(ErrorJson(MsgMissingTagType, 400), 0)
     ELSE IF type \notin {Tv, Movie} THEN Answered(ErrorJson(MsgBadType, 400), 0)
     ELSE IF Lt(pageSize, Num(1)) \/ Gt(pageSize, Num(100))
       THEN Answered(ErrorJson(MsgBadPageSize, 400), 0)
     ELSE IF Lt(pageStart, Num(0)) THEN Answered(ErrorJson(MsgBadPageStart, 400), 0)
     ELSE IF Falsy(apiKey) THEN Answered(ErrorJson(MsgNoApiKey, 500), 0)
     ELSE LET page == PlusOne(MathFloorDiv(pageStart, pageSize))
          IN Fetching(PlainUrl(IF type = Movie THEN "/search/movie" ELSE "/search/tv",
                               apiKey,
                               << <<"query", encodeURIComponent(tag)>> >>, page), 0)

\* part_002, the plain categories handler
PlainCategoriesSync(sp, apiKey) ==
  LET kind == OrElse(sp.kind, Movie)
      category == sp.category
      type == sp.type
      pageLimit == parseInt(OrElse(sp.limit, Twenty))
      pageStart == parseInt(OrElse(sp.start, Zero))
      endpoint ==
        IF kind = Movie THEN
          CASE category = ReMen -> "/movie/popular"
            [] category = ZuiXin -> "/movie/now_playing"
            [] category = JiJiangShangYing -> "/movie/upcoming"
            [] category = GaoFen -> "/movie/top_rated"
            [] OTHER -> "/movie/popular"
        ELSE
          CASE category = ReMen -> "/tv/popular"
            [] category = ZuiXin -> "/tv/on_the_air"
            [] category = JiJiangShangYing -> "/tv/airing_today"
            [] category = GaoFen -> "/tv/top_rated"
            [] OTHER -> "/tv/popular"
  IN IF Falsy(kind) \/ Falsy(category) \/ Falsy(type)
       THEN Answered(ErrorJson(MsgMissingKindCategoryType, 400), 0)
     ELSE IF kind \notin {Tv, Movie} THEN Answered(ErrorJson(MsgBadKind, 400), 0)
     ELSE IF Lt(pageLimit, Num(1)) \/ Gt(pageLimit, Num(100))
       THEN Answered(ErrorJson(MsgBadPageSize, 400), 0)
     ELSE IF Lt(pageStart, Num(0)) THEN Answered(ErrorJson(MsgBadPageStart, 400), 0)
     ELSE IF Falsy(apiKey) THEN Answered(ErrorJson(MsgNoApiKey, 500), 0)
     ELSE LET page == PlusOne(MathFloorDiv(pageStart, pageLimit))
          IN Fetching(PlainUrl(endpoint, apiKey, <<>>, page), 0)

\* ------------------------------------------------------------------------
\* The catch blocks
\* ------------------------------------------------------------------------
\* the outer catch with the test for the AbortError after the tests of the text
CatchRouteAbortLast(error, generic) ==
  IF error.isError THEN
    IF Includes(error.message, <<"4", "0", "1">>) THEN ErrorJson(MsgKeyInvalid, 500)
    ELSE IF Includes(error.message, <<"4", "2", "9">>) THEN ErrorJson(MsgRateLimited, 429)
    ELSE IF Includes(error.message, <<"5", "0", "0">>) THEN ErrorJson(MsgServerError, 502)
    ELSE IF error.name = "AbortError" THEN ErrorJson(MsgTimeout, 408)
    ELSE ErrorJson(generic, 500)
  ELSE ErrorJson(generic, 500)

\* route.ts: the outer catch of a handler whose generic message is generic
CatchRoute(error, generic) ==
  IF error.isError THEN
    IF error.name = "AbortError" THEN ErrorJson(MsgTimeout, 408)
    ELSE IF Includes(error.message, <<"4", "0", "1">>) THEN ErrorJson(MsgKeyInvalid, 500)
    ELSE IF Includes(error.message, <<"4", "2", "9">>) THEN ErrorJson(MsgRateLimited, 429)
    ELSE IF Includes(error.message, <<"5", "0", "0">>) THEN ErrorJson(MsgServerError, 502)
    ELSE ErrorJson(generic, 500)
  ELSE ErrorJson(generic, 500)

\* part_001 and part_002: the catch answers every error the same way
CatchPlain(error, generic) == ErrorJson(generic, 500)

IsRoute(h) == h \in {"search", "categories"}
IsPlain(h) == h \in {"plainSearch", "plainCategories"}

GenericMessage(h) ==
  IF h \in {"search", "plainSearch"} THEN MsgSearchFailed ELSE MsgCategoriesFailed

Catch(h, error) ==
  IF IsRoute(h) THEN CatchRoute(error, GenericMessage(h))
  ELSE CatchPlain(error, GenericMessage(h))

\* throw new Error(`TMDB API error: ${response.status}`)
StatusError(status) == Err("Error", <<"TMDB API error: ">> \o NatToString(status))

\* response.ok
Ok(status) == status \in 200..299

\* ------------------------------------------------------------------------
\* The inputs
\* ------------------------------------------------------------------------
KeHuan == <<"ke", "huan">>          \* 科幻, a label no table holds
Odd == <<"a", " ", "&", "b">>        \* a label with reserved characters

ApiKey == <<"k", "3", "y">>

Tags == {Null, <<>>, ReMen, ZuiXin, JiJiangShangYing, GaoFen, DouBanGaoFen, HuaYu,
         OuMei, HanGuo, RiBen, DongMan, JiLuPian, LengMenJiaPian, ZongYi, KeHuan, Odd}
KindTexts == {Null, Movie, Tv, <<"x">>}
Categories == {Null, ReMen, ZuiXin, JiJiangShangYing, GaoFen, DouBanGaoFen,
               LengMenJiaPian, Tv, ShowLabel, KeHuan}
Refinements == {Null, HuaYu, OuMei, HanGuo, RiBen, DongMan, JiLuPian, Movie, Tv,
                TvDomestic, TvAmerican, TvJapanese, TvKorean, TvAnimation,
                TvDocumentary, ShowLabel, ShowDomestic, ShowForeign}

\* <<page size, page offset>> as the query string carries them
PagingCore == {<<Null, Null>>, <<Twenty, <<"2", "5">>>>, <<<<"a", "b", "c">>, Null>>}
PagingAll ==
  {Null, <<>>, <<"0">>, <<"1">>, <<"1", "0", "0">>, <<"1", "0", "1">>, <<"-", "5">>,
   <<"a", "b", "c">>, <<"7", "p", "x">>}
  \X {Null, <<"0">>, <<"2", "0">>, <<"-", "1">>, <<"x">>}

SearchParams(tag, type, kind, category, paging) ==
  [tag |-> tag, type |-> type, kind |-> kind, category |-> category,
   pageSize |-> paging[1], pageStart |-> paging[2],
   limit |-> Null, start |-> Null]

CategoryParams(kind, category, type, paging) ==
  [tag |-> Null, type |-> type, kind |-> kind, category |-> category,
   pageSize |-> Null, pageStart |-> Null,
   limit |-> paging[1], start |-> paging[2]]

SearchRequests ==
  {SearchParams(tag, type, Null, Null, pg) :
     tag \in Tags, type \in KindTexts, pg \in PagingCore}
  \cup {SearchParams(tag, Movie, Null, Null, pg) : tag \in {ReMen, ZongYi}, pg \in PagingAll}

CategoryRequests ==
  {CategoryParams(kind, category, type, pg) :
     kind \in KindTexts, category \in Categories, type \in Refinements,
     pg \in PagingCore}
  \cup {CategoryParams(Tv, Tv, TvKorean, pg) : pg \in PagingAll}

Statuses == {200, 401, 404, 429, 500, 502, 503, 504}

NetworkErrors ==
  {Err("TypeError", <<"fetch failed">>),
   Err("TypeError", <<"connect ECONNREFUSED, port ", "4", "2", "9", "1">>)}

BodyErrors ==
  {Err("SyntaxError", <<"Unexpected end of JSON input">>),
   Err("SyntaxError", <<"Unexpected token < in JSON at position ", "4", "0", "1">>),
   Err("SyntaxError", <<"Unexpected token } in JSON at position ", "1", "5", "0", "0">>)}

ItemFull ==
  [id |-> Num(27205), title |-> <<"a">>, original_title |-> <<"b">>,
   name |-> <<"c">>, original_name |-> <<"d">>, poster_path |-> <<"/", "p">>,
   vote_average |-> Num(70),
   release_date |-> <<"2", "0", "2", "1", "-", "0", "7", "-", "0", "4">>,
   first_air_date |-> <<"2", "0", "1", "9", "-", "1", "1", "-", "3", "0">>]

ItemBare ==
  [id |-> Num(7), title |-> Undefined, original_title |-> <<"b">>,
   name |-> Undefined, original_name |-> <<"d">>, poster_path |-> Null,
   vote_average |-> Num(0), release_date |-> <<>>, first_air_date |-> Undefined]

ItemNoId == [ItemFull EXCEPT !.id = UndefinedNum]

\* an item whose dates do not start with a year
ItemOddDate ==
  [ItemFull EXCEPT !.id = Num(9),
                   !.release_date = <<"2", "1", "-", "7", "-", "4">>,
                   !.first_air_date = <<"x", "1", "9", "9", "9", "-", "0", "1">>]

Items == {ItemFull, ItemBare, ItemNoId, ItemOddDate}

RECURSIVE SeqsUpTo(_, _)
SeqsUpTo(S, n) ==
  IF n = 0 THEN {<<>>}
  ELSE LET shorter == SeqsUpTo(S, n - 1)
       IN shorter \cup {Append(q, e) : q \in {r \in shorter : Len(r) = n - 1}, e \in S}

\* the parsed JSON body: hasResults is false when it has no results field
Bodies ==
  {[hasResults |-> TRUE, results |-> r] : r \in SeqsUpTo(Items, MaxResults)}
  \cup {[hasResults |-> FALSE, results |-> <<>>]}

\* ------------------------------------------------------------------------
\* The state
\* ------------------------------------------------------------------------
Inv == 1..NumInv

VARIABLES
  env,            \* process.env.TMDB_API_KEY
  pc,             \* where each invocation is: idle, fetch, json, done
  handler,        \* the handler an invocation runs
  request,        \* its searchParams
  fetches,        \* the URLs it has called fetch with, in order
  timer,          \* its 10 second timer: unset, armed, cleared, fired
  aborted,        \* controller.signal.aborted
  strategyCalls,  \* its calls of getSearchStrategy
  status,         \* the status of the upstream response, 0 before it
  thrown,         \* the error its catch block has caught, NoError if none
  data,           \* the parsed JSON body it has received
  response        \* its response, NoResponse before it

vars == <<env, pc, handler, request, fetches, timer, aborted, strategyCalls,
          status, thrown, data, response>>

NoData == [hasResults |-> FALSE, results |-> <<>>]
NoRequest == SearchParams(Null, Null, Null, Null, <<Null, Null>>)

Init ==
  /\ (env = ApiKey \/ env = Null \/ env = <<>>)
  /\ pc = [i \in Inv |-> "idle"]
  /\ handler = [i \in Inv |-> "none"]
  /\ request = [i \in Inv |-> NoRequest]
  /\ fetches = [i \in Inv |-> <<>>]
  /\ timer = [i \in Inv |-> "unset"]
  /\ aborted = [i \in Inv |-> FALSE]
  /\ strategyCalls = [i \in Inv |-> 0]
  /\ status = [i \in Inv |-> 0]
  /\ thrown = [i \in Inv |-> NoError]
  /\ data = [i \in Inv |-> NoData]
  /\ response = [i \in Inv |-> NoResponse]

\* an invocation runs from its request to its first await, or to its response
Begin(i, h, sp, done) ==
  /\ pc[i] = "idle"
  /\ handler' = [handler EXCEPT ![i] = h]
  /\ request' = [request EXCEPT ![i] = sp]
  /\ strategyCalls' = [strategyCalls EXCEPT ![i] = done.calls]
  /\ fetches' = [fetches EXCEPT ![i] = done.urls]
  /\ IF done.resp # NoResponse
       THEN /\ pc' = [pc EXCEPT ![i] = "done"]
            /\ response' = [response EXCEPT ![i] = done.resp]
            /\ UNCHANGED timer
       ELSE /\ pc' = [pc EXCEPT ![i] = "fetch"]
            /\ timer' = [timer EXCEPT ![i] = IF IsRoute(h) THEN "armed" ELSE "unset"]
            /\ UNCHANGED response
  /\ UNCHANGED <<env, aborted, status, thrown, data>>

GETSearch(i, sp) == Begin(i, "search", sp, SearchSync(sp, env))
GETCategories(i, sp) == Begin(i, "categories", sp, CategoriesSync(sp, env))
GETPlainSearch(i, sp) == Begin(i, "plainSearch", sp, PlainSearchSync(sp, env))
GETPlainCategories(i, sp) ==
  Begin(i, "plainCategories", sp, PlainCategoriesSync(sp, env))

\* clearTimeout(timeoutId): nothing to clear in part_001 and part_002
ClearTimeout(t) == IF t = "armed" THEN "cleared" ELSE t

\* the error reaches the catch block, which answers
Fail(i, error) ==
  /\ thrown' = [thrown EXCEPT ![i] = error]
  /\ response' = [response EXCEPT ![i] = Catch(handler[i], error)]
  /\ pc' = [pc EXCEPT ![i] = "done"]

\* a handler that calls fetch once more after a non-success status
FetchResolvesRetry(i, st) ==
  /\ pc[i] = "fetch"
  /\ status' = [status EXCEPT ![i] = st]
  /\ IF ~Ok(st) /\ Len(fetches[i]) < 2
       THEN /\ fetches' = [fetches EXCEPT ![i] = Append(@, @[1])]
            /\ UNCHANGED <<pc, thrown, response, timer>>
       ELSE /\ timer' = [timer EXCEPT ![i] = ClearTimeout(timer[i])]
            /\ UNCHANGED fetches
            /\ IF ~Ok(st)
                 THEN Fail(i, StatusError(st))
                 ELSE /\ pc' = [pc EXCEPT ![i] = "json"]
                      /\ UNCHANGED <<thrown, response>>
  /\ UNCHANGED <<env, handler, request, aborted, strategyCalls, data>>

\* the upstream answers with a status line: await fetch(...) resolves
FetchResolves(i, st) ==
  /\ pc[i] = "fetch"
  /\ status' = [status EXCEPT ![i] = st]
  /\ timer' = [timer EXCEPT ![i] = ClearTimeout(timer[i])]
  /\ IF ~Ok(st)
       THEN Fail(i, StatusError(st))
       ELSE /\ pc' = [pc EXCEPT ![i] = "json"]
            /\ UNCHANGED <<thrown, response>>
  /\ UNCHANGED <<env, handler, request, fetches, aborted, strategyCalls, data>>

\* the network fails: await fetch(...) rejects
FetchRejects(i, error) ==
  /\ pc[i] = "fetch"
  /\ timer' = [timer EXCEPT ![i] = ClearTimeout(timer[i])]
  /\ Fail(i, error)
  /\ UNCHANGED <<env, handler, request, fetches, aborted, strategyCalls, status, data>>

\* one AbortController for the module: the timer of an invocation aborts the
\* pending fetch of every invocation of route.ts
TimerFiresShared(i) ==
  /\ pc[i] = "fetch"
  /\ timer[i] = "armed"
  /\ timer' = [timer EXCEPT ![i] = "fired"]
  /\ LET hit == {j \in Inv : pc[j] = "fetch" /\ IsRoute(handler[j])}
         error == Err("AbortError", <<"This operation was aborted">>)
     IN /\ aborted' = [j \in Inv |-> aborted[j] \/ j \in hit]
        /\ thrown' = [j \in Inv |-> IF j \in hit THEN error ELSE thrown[j]]
        /\ response' = [j \in Inv |-> IF j \in hit THEN Catch(handler[j], error)
                                      ELSE response[j]]
        /\ pc' = [j \in Inv |-> IF j \in hit THEN "done" ELSE pc[j]]
  /\ UNCHANGED <<env, handler, request, fetches, strategyCalls, status, data>>

\* the timer fires: controller.abort() rejects the fetch with an AbortError
TimerFires(i) ==
  /\ pc[i] = "fetch"
  /\ timer[i] = "armed"
  /\ timer' = [timer EXCEPT ![i] = "fired"]
  /\ aborted' = [aborted EXCEPT ![i] = TRUE]
  /\ Fail(i, Err("AbortError", <<"This operation was aborted">>))
  /\ UNCHANGED <<env, handler, request, fetches, strategyCalls, status, data>>

IsMovie(i) ==
  IF handler[i] \in {"search", "plainSearch"} THEN request[i].type = Movie
  ELSE OrElse(request[i].kind, Movie) = Movie

\* tmdbData.results.map(...) and the response built from it
Transform(h, body, isMovie) ==
  IF ~body.hasResults
    THEN [threw |-> TRUE,
          error |-> Err("TypeError",
                        <<"Cannot read properties of undefined (reading 'map')">>)]
    ELSE LET m == MapItems(body.results, IsPlain(h), isMovie)
         IN IF m.threw THEN m
            ELSE [threw |-> FALSE,
                  resp |-> ResultJson(m.list, IF IsRoute(h) THEN CacheHeaders
                                                  ELSE NoHeaders)]

\* the body arrives and parses: await response.json() resolves
BodyResolves(i, body) ==
  /\ pc[i] = "json"
  /\ data' = [data EXCEPT ![i] = body]
  /\ LET t == Transform(handler[i], body, IsMovie(i))
     IN IF t.threw
          THEN Fail(i, t.error)
          ELSE /\ response' = [response EXCEPT ![i] = t.resp]
               /\ pc' = [pc EXCEPT ![i] = "done"]
               /\ UNCHANGED thrown
  /\ UNCHANGED <<env, handler, request, fetches, timer, aborted, strategyCalls, status>>

\* the body does not parse: await response.json() rejects
BodyRejects(i, error) ==
  /\ pc[i] = "json"
  /\ Fail(i, error)
  /\ UNCHANGED <<env, handler, request, fetches, timer, aborted, strategyCalls,
                 status, data>>

\* the requests part_002 tells apart: it reads type only to see it is there
PlainCategoryRequests ==
  {sp \in CategoryRequests : sp.type \in {Null, Movie, TvKorean}}

\* the steps of invocation i
Step(i) ==
  \/ pc[i] = "idle" /\ \E sp \in SearchRequests : GETSearch(i, sp)
  \/ pc[i] = "idle" /\ \E sp \in CategoryRequests : GETCategories(i, sp)
  \/ pc[i] = "idle" /\ \E sp \in SearchRequests : GETPlainSearch(i, sp)
  \/ pc[i] = "idle" /\ \E sp \in PlainCategoryRequests : GETPlainCategories(i, sp)
  \/ pc[i] = "fetch" /\ \E st \in Statuses : FetchResolves(i, st)
  \/ pc[i] = "fetch" /\ \E error \in NetworkErrors : FetchRejects(i, error)
  \/ TimerFires(i)
  \/ pc[i] = "json" /\ \E body \in Bodies : BodyResolves(i, body)
  \/ pc[i] = "json" /\ \E error \in BodyErrors : BodyRejects(i, error)

\* Spec follows one invocation, the first, from its request to its response
Next == Step(1)

Spec == Init /\ [][Next]_vars

\* Spec with the fairness the runtime gives: a timer that stays armed fires.
\* Nothing makes the upstream send a status line or finish a body.
SpecLive == Init /\ [][Next]_vars /\ WF_vars(TimerFires(1))

\* ------------------------------------------------------------------------
\* Concurrent invocations
\* ------------------------------------------------------------------------
\* the requests and the replies of the upstream of the concurrent runs
ConcSearchRequests ==
  {SearchParams(KeHuan, Tv, Null, Null, <<Null, Null>>),
   SearchParams(ZongYi, Movie, Null, Null, <<Null, Null>>),
   SearchParams(Null, Tv, Null, Null, <<Null, Null>>)}
ConcCategoryRequests ==
  {CategoryParams(Movie, LengMenJiaPian, DongMan, <<Twenty, <<"2", "5">>>>)}
ConcStatuses == {200, 429}
ConcNetworkErrors == {Err("TypeError", <<"fetch failed">>)}
ConcBodies == {[hasResults |-> TRUE, results |-> <<ItemFull>>],
               [hasResults |-> TRUE, results |-> <<ItemNoId>>]}
ConcBodyErrors == {Err("SyntaxError", <<"Unexpected end of JSON input">>)}

\* the steps of invocation i among the others
StepConc(i) ==
  \/ pc[i] = "idle" /\ \E sp \in ConcSearchRequests : GETSearch(i, sp)
  \/ pc[i] = "idle" /\ \E sp \in ConcCategoryRequests : GETCategories(i, sp)
  \/ pc[i] = "idle" /\ \E sp \in ConcSearchRequests : GETPlainSearch(i, sp)
  \/ pc[i] = "idle" /\ \E sp \in ConcCategoryRequests : GETPlainCategories(i, sp)
  \/ pc[i] = "fetch" /\ \E st \in ConcStatuses : FetchResolves(i, st)
  \/ pc[i] = "fetch" /\ \E error \in ConcNetworkErrors : FetchRejects(i, error)
  \/ TimerFires(i)
  \/ pc[i] = "json" /\ \E body \in ConcBodies : BodyResolves(i, body)
  \/ pc[i] = "json" /\ \E error \in ConcBodyErrors : BodyRejects(i, error)

\* the runtime runs the steps of the invocations in any order
NextConc == \E i \in Inv : StepConc(i)

SpecConc == Init /\ [][NextConc]_vars

\* ------------------------------------------------------------------------
\* What the claims speak of
\* ------------------------------------------------------------------------
Started(i) == pc[i] # "idle"
Done(i) == pc[i] = "done"

\* the page size and the page offset of an invocation, as the handler parses them
PageSizeOf(i) ==
  IF handler[i] \in {"search", "plainSearch"}
    THEN parseInt(OrElse(request[i].pageSize, Twenty))
    ELSE parseInt(OrElse(request[i].limit, Twenty))

PageStartOf(i) ==
  IF handler[i] \in {"search", "plainSearch"}
    THEN parseInt(OrElse(request[i].pageStart, Zero))
    ELSE parseInt(OrElse(request[i].start, Zero))

\* the request is the 综艺 of the movie kind
IsSpecialCase(i) ==
  handler[i] = "search" /\ request[i].tag = ZongYi /\ request[i].type = Movie

\* the upstream's reading of a value of the query string
RECURSIVE FormDecode(_)
FormDecode(s) ==
  IF s = <<>> THEN <<>>
  ELSE IF Head(s) = "+" THEN <<" ">> \o FormDecode(Tail(s))
  ELSE IF Head(s) = "%" /\ Len(s) >= 2 /\ s[2] \in CJK
    THEN <<s[2]>> \o FormDecode(Tail(Tail(s)))
  ELSE IF Head(s) = "%" /\ Len(s) >= 3
    THEN LET hits == {c \in {" ", "#", "%", "&", "+", "/", "=", "?"} :
                        PercentEscape(c) = SubSeq(s, 1, 3)}
         IN (IF hits = {} THEN SubSeq(s, 1, 3) ELSE <<CHOOSE c \in hits : TRUE>>)
            \o FormDecode(SubSeq(s, 4, Len(s)))
  ELSE <<Head(s)>> \o FormDecode(Tail(s))

\* the values the query string of a URL carries for a key, in order
QueryValues(url, key) ==
  LET hits == SelectSeq(url.query, LAMBDA e : e[1] = key)
  IN [k \in 1..Len(hits) |-> FormDecode(hits[k][2])]

IsDecimal(s) == s # <<>> /\ \A k \in 1..Len(s) : IsDigit(s[k])

\* the labels of the tables of getSearchStrategy
MovieLabels == {ReMen, ZuiXin, JiJiangShangYing, GaoFen, DouBanGaoFen, HuaYu, OuMei,
                HanGuo, RiBen, DongMan, JiLuPian, LengMenJiaPian}
TvLabels == {ReMen, HuaYu, OuMei, HanGuo, RiBen, DongMan, JiLuPian, ZongYi}

\* ------------------------------------------------------------------------
\* The claims
\* ------------------------------------------------------------------------

\* C1: in each of the four handlers, an invocation that ends with a 400 or
\* with the 500 "TMDB API Key 未配置" has called fetch at no point.
C1_NoFetchOnEarlyError ==
  \A i \in Inv :
    (Done(i) /\ (response[i].status = 400 \/ response[i] = ErrorJson(MsgNoApiKey, 500)))
      => fetches[i] = <<>>

\* C1 witness: the search handler has answered that the key is not configured
\* to a request that passes its checks.
C1_Witness ==
  \E i \in Inv :
    /\ Done(i) /\ handler[i] = "search"
    /\ response[i] = ErrorJson(MsgNoApiKey, 500)
    /\ request[i].tag = KeHuan /\ request[i].type = Tv

\* C2, as claimed: a request to a route.ts handler that omits the label or
\* the kind selector (tag or type; kind, category or type) gets the 400 with
\* the missing-parameter message and reaches neither the strategy nor fetch.
\* Stated for the invocations that run with the key configured: the claim
\* covers them, and their answer cannot be the 500 of a missing key.
C2_MissingParameterIs400 ==
  \A i \in Inv :
    /\ (Started(i) /\ ~Falsy(env) /\ handler[i] = "search"
         /\ (request[i].tag = Null \/ request[i].type = Null))
        => /\ Done(i) /\ response[i] = ErrorJson(MsgMissingTagType, 400)
           /\ strategyCalls[i] = 0 /\ fetches[i] = <<>>
    /\ (Started(i) /\ ~Falsy(env) /\ handler[i] = "categories"
         /\ (request[i].kind = Null \/ request[i].category = Null
               \/ request[i].type = Null))
        => /\ Done(i) /\ response[i] = ErrorJson(MsgMissingKindCategoryType, 400)
           /\ fetches[i] = <<>>

\* C3, as claimed: a route.ts handler goes past its checks only with a page
\* size that is an integer of 1..100 and an offset that is an integer >= 0,
\* answers 400 without a fetch otherwise, and so every fetch carries an
\* integer page >= 1.  Stated for the invocations that run with the key
\* configured: the claim covers them, and their answer cannot be the 500 of
\* a missing key.
C3_OnlyValidPagingProceeds ==
  \A i \in Inv :
    (Started(i) /\ ~Falsy(env) /\ IsRoute(handler[i])) =>
      /\ ~(/\ PageSizeOf(i).k = "num" /\ PageSizeOf(i).n \in 1..100
           /\ PageStartOf(i).k = "num" /\ PageStartOf(i).n >= 0)
          => (Done(i) /\ response[i].status = 400 /\ fetches[i] = <<>>)
      /\ \A f \in 1..Len(fetches[i]) :
           LET pages == QueryValues(fetches[i][f], "page")
           IN /\ Len(pages) = 1 /\ IsDecimal(pages[1])
              /\ parseInt(pages[1]).n >= 1

\* C4: the search handler answers 综艺 of the movie kind, once the checks
\* pass and the key is there, with 200 and {code: 200, message: 获取成功,
\* list: []}, without a fetch and without a call of getSearchStrategy.
C4_VarietyMovieShortCircuit ==
  \A i \in Inv :
    (Started(i) /\ IsSpecialCase(i) /\ ~Falsy(env) /\ response[i].status # 400)
      => /\ Done(i)
         /\ response[i].status = 200
         /\ response[i].body = [code |-> 200, message |-> MsgOk, list |-> <<>>]
         /\ fetches[i] = <<>>
         /\ strategyCalls[i] = 0

\* C4 witness: such a request has been answered.
C4_Witness ==
  \E i \in Inv : Done(i) /\ IsSpecialCase(i) /\ response[i].status = 200

\* C5: an invocation of a route.ts handler that passes the checks, has the
\* key and is not the special case has called fetch exactly once from its
\* first await on, whatever came back; no invocation calls fetch twice.
C5_ExactlyOneFetch ==
  \A i \in Inv :
    /\ Len(fetches[i]) <= 1
    /\ (Started(i) /\ IsRoute(handler[i]) /\ ~Falsy(env) /\ ~IsSpecialCase(i)
          /\ response[i].status # 400)
        => Len(fetches[i]) = 1

\* C5 witness: an invocation has ended on a non-success status of the upstream.
C5_Witness ==
  \E i \in Inv :
    Done(i) /\ IsRoute(handler[i]) /\ status[i] = 503 /\ Len(fetches[i]) = 1

\* C6: once the timer has fired on a pending fetch, the signal is aborted and
\* the answer is 408 with 请求超时，请稍后重试; an AbortError is answered so
\* whatever a status branch would make of its message.
C6_TimeoutIs408 ==
  /\ \A i \in Inv :
       (timer[i] = "fired" \/ thrown[i].name = "AbortError")
         => /\ aborted[i] /\ Done(i)
            /\ response[i] = ErrorJson(MsgTimeout, 408)
  /\ \A st \in Statuses :
       CatchRoute([StatusError(st) EXCEPT !.name = "AbortError"], MsgSearchFailed)
         = ErrorJson(MsgTimeout, 408)

\* C6 witness: the timer of a categories invocation has fired.
C6_Witness ==
  \E i \in Inv : timer[i] = "fired" /\ handler[i] = "categories" /\ Done(i)

\* C7, as claimed: a route.ts handler answers every upstream status of
\* 500..599 with 502 and TMDB 服务器错误.
C7_Upstream5xxIs502 ==
  \A i \in Inv :
    (Done(i) /\ IsRoute(handler[i]) /\ status[i] \in 500..599)
      => response[i] = ErrorJson(MsgServerError, 502)

\* C8, as claimed: a failure of a route.ts handler that is neither a timeout
\* nor an upstream 5xx is answered by its cause: 429 for the status 429, 500
\* and the invalid-key message for the status 401, 500 and the generic
\* message for everything else, whatever the text of the error.
C8_MappedByCause ==
  \A i \in Inv :
    (Done(i) /\ IsRoute(handler[i]) /\ thrown[i] # NoError
       /\ thrown[i].name # "AbortError" /\ status[i] \notin 500..599)
      => response[i] =
           (CASE status[i] = 429 -> ErrorJson(MsgRateLimited, 429)
              [] status[i] = 401 -> ErrorJson(MsgKeyInvalid, 500)
              [] OTHER -> ErrorJson(GenericMessage(handler[i]), 500))

\* C9: every response is a 200 with {code: 200, message, list}, the list
\* holding one item per upstream result in the upstream's order (none for
\* the special case), or a non-200 with {error} alone; an invocation that
\* failed has no list in its response.
C9_ResponseShapes ==
  \A i \in Inv :
    Done(i) =>
      /\ \/ /\ response[i].status = 200
            /\ DOMAIN response[i].body = {"code", "message", "list"}
            /\ response[i].body.code = 200
            /\ thrown[i] = NoError
            /\ Len(response[i].body.list) = Len(data[i].results)
            /\ \A k \in 1..Len(data[i].results) :
                 response[i].body.list[k].id = NumberToString(data[i].results[k].id)
         \/ /\ response[i].status \notin {0, 200}
            /\ DOMAIN response[i].body = {"error"}
      /\ thrown[i] # NoError => DOMAIN response[i].body = {"error"}

\* C9 witness: the second of two upstream results has failed to convert.
C9_Witness ==
  \E i \in Inv :
    /\ Done(i) /\ thrown[i].name = "TypeError"
    /\ data[i].hasResults /\ Len(data[i].results) = 2
    /\ data[i].results[1] = ItemFull

\* C10: for a label outside the table of the kind, getSearchStrategy gives
\* /search/<kind> with query the label, and the URL the search handler calls
\* fetch with has that path and carries query once, the label.
C10_UnknownLabelSearches ==
  /\ \A tag \in Tags \ MovieLabels :
       LET st == getSearchStrategy(tag, Movie)
       IN st.endpoint = "/search/movie" /\ HasKey(st.params, "query")
          /\ Get(st.params, "query") = Str(tag)
  /\ \A tag \in Tags \ TvLabels :
       LET st == getSearchStrategy(tag, Tv)
       IN st.endpoint = "/search/tv" /\ HasKey(st.params, "query")
          /\ Get(st.params, "query") = Str(tag)
  /\ \A i \in Inv :
       \A f \in 1..Len(fetches[i]) :
         (handler[i] = "search"
            /\ request[i].tag \notin (IF request[i].type = Movie THEN MovieLabels
                                       ELSE TvLabels))
           => /\ fetches[i][f].path =
                   (IF request[i].type = Movie THEN "/search/movie" ELSE "/search/tv")
              /\ QueryValues(fetches[i][f], "query") = <<request[i].tag>>

\* C10 witness: the search handler has called fetch for a label with reserved
\* characters that no table holds.
C10_Witness ==
  \E i \in Inv :
    handler[i] = "search" /\ request[i].tag = Odd /\ request[i].type = Tv
      /\ Len(fetches[i]) = 1

\* C11, as claimed: the year of every item of every list a handler answers
\* with is empty or four decimal digits, whatever the upstream's date.
C11_YearEmptyOrFourDigits ==
  \A i \in Inv :
    (Done(i) /\ response[i].status = 200) =>
      \A k \in 1..Len(response[i].body.list) :
        LET year == response[i].body.list[k].year
        IN year = <<>> \/ (Len(year) = 4 /\ IsDecimal(year))

\* C12: for an offset >= 0 and a size of 1..100, the URL a route.ts handler
\* calls fetch with carries page once, and its value is
\* floor(offset / size) + 1, whatever the strategy or the refinement put
\* into the parameters; offsets 0, 20, 25 with size 20 give 1, 2, 2.
C12_PageIsFloorPlusOne ==
  /\ \A i \in Inv :
       \A f \in 1..Len(fetches[i]) :
         (/\ IsRoute(handler[i])
          /\ PageSizeOf(i).k = "num" /\ PageSizeOf(i).n \in 1..100
          /\ PageStartOf(i).k = "num" /\ PageStartOf(i).n >= 0)
           => QueryValues(fetches[i][f], "page")
                = <<NatToString((PageStartOf(i).n \div PageSizeOf(i).n) + 1)>>
  /\ PlusOne(MathFloorDiv(Num(0), Num(20))) = Num(1)
  /\ PlusOne(MathFloorDiv(Num(20), Num(20))) = Num(2)
  /\ PlusOne(MathFloorDiv(Num(25), Num(20))) = Num(2)

\* C12 witness: the categories handler has called fetch for 冷门佳片 refined
\* by 动漫 with offset 25 and size 20, and the page is 2.
C12_Witness ==
  \E i \in Inv :
    /\ handler[i] = "categories" /\ Len(fetches[i]) = 1
    /\ request[i].category = LengMenJiaPian /\ request[i].type = DongMan
    /\ request[i].limit = Twenty /\ request[i].start = <<"2", "5">>
    /\ QueryValues(fetches[i][1], "page") = <<<<"2">>>>

\* the part of handler h before its first await
SyncOf(h, sp, apiKey) ==
  CASE h = "search" -> SearchSync(sp, apiKey)
    [] h = "categories" -> CategoriesSync(sp, apiKey)
    [] h = "plainSearch" -> PlainSearchSync(sp, apiKey)
    [] OTHER -> PlainCategoriesSync(sp, apiKey)

\* the response invocation i gives when it runs alone with its request, the
\* key, and what its own timer and its own upstream did; NoResponse when
\* none of them has ended it
AloneResponse(i) ==
  LET h == handler[i]
      sync == SyncOf(h, request[i], env)
  IN IF sync.resp # NoResponse THEN sync.resp
     ELSE IF timer[i] = "fired" THEN ErrorJson(MsgTimeout, 408)
     ELSE IF status[i] = 0
       THEN (IF thrown[i] \in NetworkErrors THEN Catch(h, thrown[i]) ELSE NoResponse)
     ELSE IF ~Ok(status[i]) THEN Catch(h, StatusError(status[i]))
     ELSE IF thrown[i] \in BodyErrors THEN Catch(h, thrown[i])
     ELSE LET t == Transform(h, data[i], IsMovie(i))
          IN IF t.threw THEN Catch(h, t.error) ELSE t.resp

\* C13: in every interleaving of the invocations, the response of each is
\* the one it gives alone with its request, the key and the reply of its
\* upstream, and a fetch is aborted by the timer of its own invocation only.
C13_IndependentInvocations ==
  \A i \in Inv :
    /\ aborted[i] => timer[i] = "fired"
    /\ thrown[i].name = "AbortError" => timer[i] = "fired"
    /\ Done(i) => response[i] = AloneResponse(i)

\* C13 witness: the timer of one invocation of route.ts has fired while
\* another one, whose fetch has resolved, is reading its body.
C13_Witness ==
  \E i, j \in Inv :
    /\ i # j
    /\ timer[i] = "fired" /\ Done(i)
    /\ IsRoute(handler[j]) /\ pc[j] = "json" /\ timer[j] = "cleared"

\* C14, as claimed: every invocation of a route.ts handler that has started
\* ends with a response, wherever the upstream stalls.
C14_EveryInvocationResponds ==
  \A i \in Inv : (Started(i) /\ IsRoute(handler[i])) ~> Done(i)

\* the invocation asks a route.ts handler for 冷门佳片 of the movie kind
IsHiddenGems(i) ==
  \/ handler[i] = "search" /\ request[i].type = Movie
       /\ request[i].tag = LengMenJiaPian
  \/ handler[i] = "categories" /\ OrElse(request[i].kind, Movie) = Movie
       /\ request[i].category = LengMenJiaPian

\* C15, as claimed: for 冷门佳片 of the movie kind, under every refinement, each
\* URL a route.ts handler calls fetch with has the path /discover/movie and
\* carries sort_by=vote_average.desc and vote_count.gte=100, each once.
C15_HiddenGemsKeepRanking ==
  \A i \in Inv :
    IsHiddenGems(i) =>
      \A f \in 1..Len(fetches[i]) :
        /\ fetches[i][f].path = "/discover/movie"
        /\ QueryValues(fetches[i][f], "sort_by") = <<VoteAverageDesc>>
        /\ QueryValues(fetches[i][f], "vote_count.gte") = << <<"1", "0", "0">> >>

\* C16, as claimed: each URL a route.ts handler calls fetch with carries
\* include_adult=false once and one page, and carries include_video=false
\* once when the kind is movie and not at all when it is tv.
C16_IncludeVideoMovieOnly ==
  \A i \in Inv :
    IsRoute(handler[i]) =>
      \A f \in 1..Len(fetches[i]) :
        /\ QueryValues(fetches[i][f], "include_adult")
             = << <<"f", "a", "l", "s", "e">> >>
        /\ Len(QueryValues(fetches[i][f], "page")) = 1
        /\ QueryValues(fetches[i][f], "include_video")
             = (IF IsMovie(i) THEN << <<"f", "a", "l", "s", "e">> >> ELSE <<>>)

=============================================================================
